---------------------------- MODULE Spec2Model ----------------------------
(***************************************************************************)
(* Polynomial curve fitting (src/main.py): the Sampler                     *)
(* generate_noisy_sin_points, the Fitter polynomial_regression, the        *)
(* Evaluator polynomial, the Scorer mean_squared_error and the __main__    *)
(* driver.                                                                 *)
(*                                                                         *)
(* Numbers are exact rationals [n |-> numerator, d |-> denominator] in     *)
(* lowest terms with d > 0: the arithmetic of the source is modelled       *)
(* without float64 rounding, and numpy.linalg.pinv is modelled as the      *)
(* exact Moore-Penrose pseudoinverse (no rcond cut-off).                   *)
(***************************************************************************)
EXTENDS Integers, Sequences, FiniteSets

VARIABLES
    rng,          \* the standard normal draws the random generator will deliver
    num_points,   \* the Sampler's point count
    noise_level,  \* the Sampler's noise standard deviation
    x,            \* sample x values (or the Evaluator's input)
    y,            \* sample y values
    degrees,      \* the list of degrees the loop walks through
    k,            \* index into degrees of the current iteration
    w_star,       \* coefficient vector of the current iteration
    y_pred,       \* predictions of the current iteration
    error_value,  \* score of the current iteration
    out,          \* console lines printed so far
    calls,        \* the names of the calls made so far, in order
    pc            \* position in the program

vars == <<rng, num_points, noise_level, x, y, degrees, k, w_star, y_pred, error_value, out, calls, pc>>

-----------------------------------------------------------------------------
(* Exact rational arithmetic *)

\* The arithmetic is written as functions: a function is applied to the
\* values of its arguments, so each argument is computed once.

Abs(a) == IF a < 0 THEN -a ELSE a

GCD[a \in Nat, b \in Nat] == IF b = 0 THEN a ELSE GCD[b, a % b]

\* the rational n/d in lowest terms, d # 0
Normalised[n \in Int, d \in Int] ==
    LET g == GCD[Abs(n), Abs(d)]
        s == IF d < 0 THEN -1 ELSE 1
    IN  [n |-> s * (n \div g), d |-> s * (d \div g)]

R(n, d) == Normalised[n, d]

I(a) == [n |-> a, d |-> 1]
Zero == I(0)
One == I(1)
Rat == [n : Int, d : Int]

\* a + b over the least common denominator
Sum[a \in Rat, b \in Rat] ==
    IF a.d = 1 /\ b.d = 1 THEN I(a.n + b.n)
    ELSE LET g == GCD[a.d, b.d]
         IN  R(a.n * (b.d \div g) + b.n * (a.d \div g), (a.d \div g) * b.d)

\* a * b, cancelling across before multiplying
Product[a \in Rat, b \in Rat] ==
    IF a.d = 1 /\ b.d = 1 THEN I(a.n * b.n)
    ELSE LET g == GCD[Abs(a.n), b.d]
             h == GCD[Abs(b.n), a.d]
         IN  R((a.n \div g) * (b.n \div h), (a.d \div h) * (b.d \div g))

RAdd(a, b) == Sum[a, b]
RNeg(a) == [n |-> -a.n, d |-> a.d]
RSub(a, b) == Sum[a, RNeg(b)]
RMul(a, b) == Product[a, b]
\* a / b for b # 0
RDiv(a, b) == Product[a, R(b.d, b.n)]
RLe(a, b) == a.n * b.d <= b.n * a.d
RLt(a, b) == a.n * b.d < b.n * a.d

\* a ** i for an integer i >= 0; 0 ** 0 = 1 as in Python and numpy
RECURSIVE RPow(_, _)
RPow(a, i) == IF i = 0 THEN One ELSE RMul(a, RPow(a, i - 1))

\* Python's sum / numpy.sum of a sequence of rationals, starting from 0
RECURSIVE RSum(_)
RSum(s) == IF s = <<>> THEN Zero ELSE RAdd(RSum(SubSeq(s, 1, Len(s) - 1)), s[Len(s)])

-----------------------------------------------------------------------------
(* Dense linear algebra on sequences of rows *)

\* the function f on 1..n as a tuple, its elements computed once
Vec(f) == f \o <<>>

Rows(A) == Len(A)
Cols(A) == IF A = <<>> THEN 0 ELSE Len(A[1])

\* A.T of an r x c matrix with r >= 1
Transpose(A) == Vec([j \in 1..Cols(A) |-> Vec([i \in 1..Rows(A) |-> A[i][j]])])

\* A @ B
MatMul(A, B) ==
    Vec([i \in 1..Rows(A) |->
        Vec([j \in 1..Cols(B) |->
            RSum(Vec([l \in 1..Cols(A) |-> RMul(A[i][l], B[l][j])]))])])

\* A @ v for a vector v
MatVec(A, v) ==
    Vec([i \in 1..Rows(A) |-> RSum(Vec([l \in 1..Cols(A) |-> RMul(A[i][l], v[l])]))])

MatScale(c, A) ==
    Vec([i \in 1..Rows(A) |-> Vec([j \in 1..Cols(A) |-> RMul(c, A[i][j])])])
MatAdd(A, B) ==
    Vec([i \in 1..Rows(A) |-> Vec([j \in 1..Cols(A) |-> RAdd(A[i][j], B[i][j])])])
Identity(n) == Vec([i \in 1..n |-> Vec([j \in 1..n |-> IF i = j THEN One ELSE Zero])])
ZeroMat(n) == Vec([i \in 1..n |-> Vec([j \in 1..n |-> Zero])])
Trace(A) == RSum(Vec([i \in 1..Rows(A) |-> A[i][i]]))

\* Faddeev-LeVerrier: the sequence of <<M_j, c_j, A @ M_j>>, j = 1..n, with
\* M_1 = I, c_j = -trace(A @ M_j) / j, M_(j+1) = A @ M_j + c_j I, so that
\* M_j = A^(j-1) + c_1 A^(j-2) + ... + c_(j-1) I and
\* det(t I - A) = t^n + c_1 t^(n-1) + ... + c_n
RECURSIVE Faddeev(_, _)
Faddeev(A, j) ==
    IF j = 0 THEN <<>>
    ELSE LET prev == Faddeev(A, j - 1)
             Mj == IF j = 1 THEN Identity(Rows(A))
                   ELSE MatAdd(prev[j - 1][3],
                               MatScale(prev[j - 1][2], Identity(Rows(A))))
             AMj == MatMul(A, Mj)
             cj == RDiv(RNeg(Trace(AMj)), I(j))
         IN  Append(prev, <<Mj, cj, AMj>>)

\* the rank of a symmetric matrix from its Faddeev sequence fs: the largest
\* j with c_j # 0
RECURSIVE SymRank(_, _)
SymRank(fs, j) ==
    IF j = 0 THEN 0
    ELSE IF fs[j][2] # Zero THEN j ELSE SymRank(fs, j - 1)

\* numpy.linalg.inv in place of pinv: a singular matrix raises LinAlgError
\* and there is no result, written <<>>
inv(A) ==
    LET last == Faddeev(A, Rows(A))[Rows(A)]
    IN  IF last[2] = Zero THEN <<>>
        ELSE MatScale(RNeg(RDiv(One, last[2])), last[1])

\* numpy.linalg.pinv of a symmetric matrix A: the Moore-Penrose pseudoinverse.
\* With r the rank of A and G = -M_r / c_r, G inverts A on the range of A and
\* A @ G is the orthogonal projection onto that range, so G @ (A @ G) inverts
\* A on its range and vanishes on its kernel.
pinv(A) ==
    LET fs == Faddeev(A, Rows(A))
        r == SymRank(fs, Rows(A))
    IN  IF r = 0 THEN ZeroMat(Rows(A))
        ELSE LET G == MatScale(RNeg(RDiv(One, fs[r][2])), fs[r][1])
             IN  MatMul(G, MatMul(A, G))

-----------------------------------------------------------------------------
(* The four functions of src/main.py *)

\* numpy.vander's default column order: column i holds x ** (cols-1-i)
vander_decreasing(xs, cols) ==
    Vec([j \in 1..Len(xs) |-> Vec([i \in 1..cols |-> RPow(xs[j], cols - i)])])

\* one column too few: the powers 0..cols-2
vander_short(xs, cols) ==
    Vec([j \in 1..Len(xs) |-> Vec([i \in 1..(cols - 1) |-> RPow(xs[j], i - 1)])])

\* numpy.vander(x, cols, increasing=True): column i holds x ** i, i = 0..cols-1
vander(xs, cols) ==
    Vec([j \in 1..Len(xs) |-> Vec([i \in 1..cols |-> RPow(xs[j], i - 1)])])

polynomial_regression(xa, ya, degree) ==
    LET X == vander(xa.data, degree + 1)
        Xt == Transpose(X)
    IN  MatVec(MatMul(pinv(MatMul(Xt, X)), Xt), ya.data)

\* a numpy value: a 0-d scalar has shape <<>> and one element, a 1-d array
\* of length n has shape <<n>> and n elements
Scalar(v) == [shape |-> <<>>, data |-> <<v>>]
Array(s) == [shape |-> <<Len(s)>>, data |-> s]

\* w[0] * v**0 + ... + w[len(w)-1] * v**(len(w)-1) at one value v
PolyAt(v, w) == RSum(Vec([i \in 1..Len(w) |-> RMul(w[i], RPow(v, i - 1))]))

\* numpy.polyval's convention: w[0] is the coefficient of the highest power
polynomial_polyval(xa, w) ==
    [shape |-> xa.shape,
     data |-> Vec([j \in 1..Len(xa.data) |->
        RSum(Vec([i \in 1..Len(w) |-> RMul(w[i], RPow(xa.data[j], Len(w) - i))]))])]

\* sum(w[i] * x**i for i in range(len(w))): Python's sum starts from the
\* integer 0, and each term broadcasts the scalar w[i] over x
polynomial(xa, w) ==
    IF Len(w) = 0 THEN Scalar(Zero)
    ELSE [shape |-> xa.shape,
          data |-> Vec([j \in 1..Len(xa.data) |-> PolyAt(xa.data[j], w)])]

\* the sum of the squared differences, not halved
mean_squared_error_sum(ya, pa) ==
    RSum(Vec([j \in 1..Len(ya.data) |-> RPow(RSub(ya.data[j], pa.data[j]), 2)]))

\* the signed differences, not squared
mean_squared_error_signed(ya, pa) ==
    RDiv(RSum(Vec([j \in 1..Len(ya.data) |-> RSub(ya.data[j], pa.data[j])])), I(2))

\* numpy.sum((y - y_pred)**2) / 2 for arrays of one shape
mean_squared_error(ya, pa) ==
    RDiv(RSum(Vec([j \in 1..Len(ya.data) |->
                    RPow(RSub(ya.data[j], pa.data[j]), 2)])), I(2))

\* numpy.linspace with endpoint=False: num equal steps, stop left out
linspace_open(start, stop, num) ==
    Array(Vec([i \in 1..num |->
        RAdd(RMul(I(i - 1), RDiv(RSub(stop, start), I(num))), start)]))

\* numpy.linspace(start, stop, num) with endpoint=True: num - 1 equal steps,
\* the last element set to stop when num > 1; one element gives <<start>>
linspace(start, stop, num) ==
    LET div == num - 1
        delta == RSub(stop, start)
        step == IF div > 0 THEN RDiv(delta, I(div)) ELSE delta
    IN  Array(Vec([i \in 1..num |->
            IF num > 1 /\ i = num THEN stop
            ELSE RAdd(RMul(I(i - 1), step), start)]))

\* x = linspace(0, 1, num_points); y = sin(2 pi x) + normal(0, noise_level),
\* where z holds the standard normal draws, one per point.  sin(2 pi x[i]) is
\* kept as the term sin2pi |-> x[i], the noise added to it as noise_level * z[i].
\* (xa is bound by a quantifier, so that x is computed once.)
generate_noisy_sin_points(n, level, z) ==
    CHOOSE s \in
        {<<xa, Array(Vec([i \in 1..n |->
                [sin2pi |-> xa.data[i], noise |-> RMul(level, z[i])]]))>> :
            xa \in {linspace(Zero, One, n)}} : TRUE

-----------------------------------------------------------------------------
(* Bounds and input sets *)

MaxN == 3          \* longest sample of the fit loop
MaxDegree == 2     \* highest degree of the fit loop
MaxPoints == 5     \* largest point count given to the Sampler
MaxLen == 3        \* longest array given to the Evaluator and the Scorer

XVals == {I(-1), I(0), I(2)}
YVals == {I(0), I(1)}
WVals == {I(-1), R(1, 2), I(2)}
SVals == {I(-1), I(0), R(1, 2), I(2)}
PVals == {I(-1), I(0), I(1)}
Draws == {I(-1), I(1)}
NoiseLevels == {Zero, R(1, 10), One}

Arrays(S, n) == {Array(s) : s \in [1..n -> S]}

EVals == {I(-1), R(1, 2), I(2)}

\* driver parameters
NumPoints == 10
DefaultNoise == R(1, 10)
Degrees_descending == <<9, 3, 1, 0>>
Degrees == <<0, 1, 3, 9>>

-----------------------------------------------------------------------------
(* The steps of __main__; the three function calls take the value the call  *)
(* returned                                                                *)

CurDegree == degrees[k]

\* x, y = generate_noisy_sin_points(num_points, noise_level)
Sample ==
    /\ pc = "start"
    /\ LET s == generate_noisy_sin_points(num_points, noise_level, rng)
       IN  x' = s[1] /\ y' = s[2]
    /\ calls' = Append(calls, "generate_noisy_sin_points")
    /\ pc' = "fit"
    /\ UNCHANGED <<rng, num_points, noise_level, degrees, k, w_star, y_pred,
                   error_value, out>>

\* w_star = polynomial_regression(x, y, i)
FitStep(fitted) ==
    /\ pc = "fit"
    /\ k <= Len(degrees)
    /\ w_star' = fitted
    /\ calls' = Append(calls, "polynomial_regression")
    /\ pc' = "eval"
    /\ UNCHANGED <<rng, num_points, noise_level, x, y, degrees, k, y_pred,
                   error_value, out>>

\* y_pred = polynomial(x, w_star)
EvalStep(predicted) ==
    /\ pc = "eval"
    /\ y_pred' = predicted
    /\ calls' = Append(calls, "polynomial")
    /\ pc' = "score"
    /\ UNCHANGED <<rng, num_points, noise_level, x, y, degrees, k, w_star,
                   error_value, out>>

\* error_value = mean_squared_error(y, y_pred)
ScoreStep(score) ==
    /\ pc = "score"
    /\ error_value' = score
    /\ calls' = Append(calls, "mean_squared_error")
    /\ pc' = "print"
    /\ UNCHANGED <<rng, num_points, noise_level, x, y, degrees, k, w_star,
                   y_pred, out>>

\* print(f'Degree: {i}, Error: {error_value}')
Report ==
    /\ pc = "print"
    /\ k <= Len(degrees)
    /\ out' = Append(out, [degree |-> CurDegree, error |-> error_value])
    /\ calls' = Append(calls, "print")
    /\ pc' = "plot"
    /\ UNCHANGED <<rng, num_points, noise_level, x, y, degrees, k, w_star,
                   y_pred, error_value>>

\* the curve of this degree goes to the renderer; then the next degree, or
\* the end of the loop
Plot ==
    /\ pc = "plot"
    /\ calls' = Append(calls, "plt.plot")
    /\ k' = k + 1
    /\ pc' = IF k + 1 <= Len(degrees) THEN "fit" ELSE "render"
    /\ UNCHANGED <<rng, num_points, noise_level, x, y, degrees, w_star, y_pred,
                   error_value, out>>

\* scatter, reference curve, legend, show
Render ==
    /\ pc = "render"
    /\ calls' = Append(calls, "plt.show")
    /\ pc' = "done"
    /\ UNCHANGED <<rng, num_points, noise_level, x, y, degrees, k, w_star,
                   y_pred, error_value, out>>

-----------------------------------------------------------------------------
(* Spec: the loop of __main__ on every sample of 1..MaxN points over XVals   *)
(* and YVals, with the degrees 0..MaxDegree                                  *)

Init ==
    /\ rng = <<>>
    /\ \E n \in 1..MaxN :
          /\ num_points = n
          /\ x \in Arrays(XVals, n)
          /\ y \in Arrays(YVals, n)
    /\ noise_level = Zero
    /\ degrees = [i \in 1..(MaxDegree + 1) |-> i - 1]
    /\ k = 1
    /\ w_star = <<>>
    /\ y_pred = Array(<<>>)
    /\ error_value = Zero
    /\ out = <<>>
    /\ calls = <<>>
    /\ pc = "fit"

Fit == FitStep(polynomial_regression(x, y, CurDegree))
Evaluate == EvalStep(polynomial(x, w_star))
Score == ScoreStep(mean_squared_error(y, y_pred))

Next == Fit \/ Evaluate \/ Score \/ Report \/ Plot \/ Render

Spec == Init /\ [][Next]_vars

-----------------------------------------------------------------------------
(* SpecSampler: the Sampler alone, on 1..MaxPoints points and every noise    *)
(* level of NoiseLevels                                                      *)

SamplerInit ==
    /\ num_points \in 1..MaxPoints
    /\ noise_level \in NoiseLevels
    /\ rng \in [1..num_points -> Draws]
    /\ x = Array(<<>>)
    /\ y = Array(<<>>)
    /\ degrees = <<>>
    /\ k = 1
    /\ w_star = <<>>
    /\ y_pred = Array(<<>>)
    /\ error_value = Zero
    /\ out = <<>>
    /\ calls = <<>>
    /\ pc = "start"

SamplerNext == Sample

SpecSampler == SamplerInit /\ [][SamplerNext]_vars

-----------------------------------------------------------------------------
(* SpecEval: the Evaluator alone, on scalars and arrays over SVals and       *)
(* coefficient vectors of degree 0..MaxDegree over WVals                     *)

EvalInit ==
    /\ rng = <<>>
    /\ num_points = 0
    /\ noise_level = Zero
    /\ x \in {Scalar(v) : v \in SVals}
             \cup UNION {Arrays(SVals, n) : n \in 0..MaxLen}
    /\ y = Array(<<>>)
    /\ degrees = <<>>
    /\ k = 1
    /\ w_star \in UNION {[1..n -> WVals] : n \in 1..(MaxDegree + 1)}
    /\ y_pred = Array(<<>>)
    /\ error_value = Zero
    /\ out = <<>>
    /\ calls = <<>>
    /\ pc = "eval"

EvalNext == Evaluate

SpecEval == EvalInit /\ [][EvalNext]_vars

-----------------------------------------------------------------------------
(* SpecScore: the Scorer alone, on every pair of arrays of one length        *)
(* 0..MaxLen over EVals, called a second time with its arguments swapped     *)

ScoreInit ==
    /\ rng = <<>>
    /\ \E n \in 0..MaxLen :
          /\ num_points = n
          /\ y \in Arrays(EVals, n)
          /\ y_pred \in Arrays(EVals, n)
    /\ noise_level = Zero
    /\ x = Array(<<>>)
    /\ degrees = <<>>
    /\ k = 1
    /\ w_star = <<>>
    /\ error_value = Zero
    /\ out = <<>>
    /\ calls = <<>>
    /\ pc = "score"

\* error_value = mean_squared_error(y_pred, y)
ScoreSwapped ==
    /\ pc = "print"
    /\ error_value' = mean_squared_error(y_pred, y)
    /\ calls' = Append(calls, "mean_squared_error")
    /\ pc' = "rescored"
    /\ UNCHANGED <<rng, num_points, noise_level, x, y, degrees, k, w_star,
                   y_pred, out>>

ScoreNext == Score \/ ScoreSwapped

SpecScore == ScoreInit /\ [][ScoreNext]_vars

-----------------------------------------------------------------------------
(* Driver: __main__ as written, 10 points, default noise, degrees 0, 1, 3,   *)
(* 9.  The fit of degree 9 on x = i/9 is beyond the integers of the model    *)
(* checker, so the three functions are applied as terms: each result         *)
(* records the function and the arguments it was applied to.                 *)

term_polynomial_regression(xa, ya, degree) ==
    [fn |-> "polynomial_regression", x |-> xa, y |-> ya, degree |-> degree]
term_polynomial(xa, w) == [fn |-> "polynomial", x |-> xa, w |-> w]
term_mean_squared_error(ya, pa) ==
    [fn |-> "mean_squared_error", y |-> ya, y_pred |-> pa]

DriverInit ==
    /\ num_points = NumPoints
    /\ noise_level = DefaultNoise
    /\ rng \in [1..NumPoints -> Draws]
    /\ x = Array(<<>>)
    /\ y = Array(<<>>)
    /\ degrees = Degrees
    /\ k = 1
    /\ w_star = <<>>
    /\ y_pred = Array(<<>>)
    /\ error_value = Zero
    /\ out = <<>>
    /\ calls = <<>>
    /\ pc = "start"

DriverFit == FitStep(term_polynomial_regression(x, y, CurDegree))
DriverEvaluate == EvalStep(term_polynomial(x, w_star))
DriverScore == ScoreStep(term_mean_squared_error(y, y_pred))

DriverNext ==
    \/ Sample
    \/ DriverFit
    \/ DriverEvaluate
    \/ DriverScore
    \/ Report
    \/ Plot
    \/ Render

\* the interpreter runs each statement of the script to its end
Driver == DriverInit /\ [][DriverNext]_vars /\ WF_vars(DriverNext)

-----------------------------------------------------------------------------
(* What the claims speak of, written out from their own words *)

\* w[1] + v * (w[2] + v * (... + v * w[n])): the value at v of the polynomial
\* whose coefficient of v^i is w[i+1]
RECURSIVE ValueAt(_, _)
ValueAt(w, v) ==
    IF w = <<>> THEN Zero ELSE RAdd(w[1], RMul(v, ValueAt(Tail(w), v)))

RECURSIVE Total(_)
Total(s) == IF s = <<>> THEN Zero ELSE RAdd(Head(s), Total(Tail(s)))

Square(a) == RMul(a, a)

\* sum_j (y[j] - sum_i w[i] x[j]^i)^2 on the sample in x, y
SSR(w) ==
    Total(Vec([j \in 1..Len(x.data) |->
                Square(RSub(y.data[j], ValueAt(w, x.data[j])))]))

Norm2(w) == Total(Vec([i \in 1..Len(w) |-> Square(w[i])]))

VecAdd(u, v) == Vec([i \in 1..Len(u) |-> RAdd(u[i], v[i])])

Perturbations(n) == [1..n -> PVals]

\* the gradient of SSR vanishes at w: for every power i the residuals are
\* orthogonal to x^i
Stationary(w) ==
    \A i \in 0..(Len(w) - 1) :
        Total(Vec([j \in 1..Len(x.data) |->
            RMul(RPow(x.data[j], i), RSub(y.data[j], ValueAt(w, x.data[j])))])) = Zero

DistinctX == {x.data[j] : j \in 1..Len(x.data)}

\* X^T X is singular exactly when fewer distinct x values than columns
SingularFit == Cardinality(DistinctX) < CurDegree + 1

\* C1: the Fitter returns D+1 coefficients, index i that of x^i, and no
\* coefficient vector has a smaller sum of squared residuals: the gradient
\* vanishes there and no perturbation of it by PVals does better.
C1_FitMinimisesResiduals ==
    pc = "eval" =>
        /\ Len(w_star) = CurDegree + 1
        /\ Stationary(w_star)
        /\ LET best == SSR(w_star)
           IN  \A u \in Perturbations(Len(w_star)) :
                   RLe(best, SSR(VecAdd(w_star, u)))

C1_Witness ==
    /\ pc = "eval"
    /\ CurDegree = 2
    /\ Len(x.data) = 3
    /\ ~SingularFit
    /\ w_star[3] # Zero

\* C2: when X^T X is singular the Fitter still returns D+1 coefficients, they
\* minimise the sum of squared residuals, and every other minimiser has at
\* least their norm.
C2_SingularFitIsLeastNorm ==
    (pc = "eval" /\ SingularFit) =>
        /\ Len(w_star) = CurDegree + 1
        /\ Stationary(w_star)
        /\ LET best == SSR(w_star)
               norm == Norm2(w_star)
           IN  \A u \in Perturbations(Len(w_star)) :
                   SSR(VecAdd(w_star, u)) = best
                       => RLe(norm, Norm2(VecAdd(w_star, u)))

\* a singular fit with a second minimiser next to the nonzero one returned
C2_Witness ==
    /\ pc = "eval"
    /\ SingularFit
    /\ Norm2(w_star) # Zero
    /\ \E u \in Perturbations(Len(w_star)) :
          /\ Norm2(u) # Zero
          /\ SSR(VecAdd(w_star, u)) = SSR(w_star)
          /\ RLt(Norm2(w_star), Norm2(VecAdd(w_star, u)))

\* C3: with pairwise distinct x and degree N-1 the fitted polynomial passes
\* through every sample point and the score is 0.
C3_InterpolatesExactly ==
    (pc = "print" /\ Cardinality(DistinctX) = Len(x.data)
                  /\ CurDegree = Len(x.data) - 1) =>
        /\ \A j \in 1..Len(x.data) : y_pred.data[j] = y.data[j]
        /\ error_value = Zero

C3_Witness ==
    /\ pc = "print"
    /\ Len(x.data) = 3
    /\ Cardinality(DistinctX) = 3
    /\ CurDegree = 2
    /\ y.data[1] # y.data[2]
    /\ y_pred = y

\* C4: the degree-0 fit is the single coefficient mean(y), whatever x is.
C4_DegreeZeroIsMean ==
    (pc = "eval" /\ CurDegree = 0) =>
        /\ Len(w_star) = 1
        /\ RMul(w_star[1], I(Len(y.data))) = Total(y.data)

C4_Witness ==
    /\ pc = "eval"
    /\ CurDegree = 0
    /\ Len(y.data) = 3
    /\ w_star = <<R(2, 3)>>

\* C8: on one sample the printed error of a higher degree is never larger
\* than that of a lower degree.
C8_ErrorNonIncreasingInDegree ==
    \A i, j \in 1..Len(out) :
        out[i].degree <= out[j].degree => RLe(out[j].error, out[i].error)

C8_Witness ==
    /\ Len(out) = 3
    /\ RLt(out[2].error, out[1].error)
    /\ RLt(out[3].error, out[2].error)

\* C5: the Evaluator returns a value of the shape of x whose element for each
\* input value v is sum_i w[i] v^i; a constant polynomial [c] gives c everywhere.
C5_EvaluatorValues ==
    pc = "score" =>
        /\ y_pred.shape = x.shape
        /\ Len(y_pred.data) = Len(x.data)
        /\ \A j \in 1..Len(x.data) : y_pred.data[j] = ValueAt(w_star, x.data[j])
        /\ Len(w_star) = 1 => \A j \in 1..Len(x.data) : y_pred.data[j] = w_star[1]

C5_Witness ==
    /\ pc = "score"
    /\ x = Array(<<R(1, 2), I(2)>>)
    /\ w_star = <<I(-1), R(1, 2), I(2)>>
    /\ y_pred = Array(<<R(-1, 4), I(8)>>)

C7_SymmetricOnlyIfEqual ==
    [][(pc = "print" /\ pc' = "rescored" /\ error_value' = error_value)
          => y = y_pred]_vars

\* C7 as amended: the Scorer gives the same score with its arguments swapped,
\* for every pair of arrays of one length.
C7_SymmetricAlways ==
    [][(pc = "print" /\ pc' = "rescored") => error_value' = error_value]_vars

C7_Witness ==
    /\ pc = "rescored"
    /\ y # y_pred
    /\ error_value # Zero
    /\ error_value = mean_squared_error(y_pred, y)

StrictlyIncreasing(s) == \A i \in 1..(Len(s) - 1) : RLt(s[i], s[i + 1])

\* C9 as stated: x and y have n elements, x is strictly increasing from
\* x[0] = 0 to x[n-1] = 1 with x[i] = i/(n-1), for every n >= 1.
C9_EndpointsForEveryN ==
    pc = "fit" =>
        /\ Len(x.data) = num_points
        /\ Len(y.data) = num_points
        /\ x.data[1] = Zero
        /\ x.data[num_points] = One
        /\ \A i \in 1..num_points :
              RMul(x.data[i], I(num_points - 1)) = I(i - 1)
        /\ StrictlyIncreasing(x.data)

\* C9 as amended: x and y have n elements and x[0] = 0; for n >= 2, x is
\* strictly increasing up to x[n-1] = 1 with x[i] = i/(n-1); for n = 1, x
\* is the single value 0.
C9_EndpointsFromTwoPoints ==
    pc = "fit" =>
        /\ x.shape = <<num_points>> /\ Len(x.data) = num_points
        /\ y.shape = <<num_points>> /\ Len(y.data) = num_points
        /\ x.data[1] = Zero
        /\ StrictlyIncreasing(x.data)
        /\ num_points >= 2 =>
              /\ x.data[num_points] = One
              /\ \A i \in 1..num_points :
                    x.data[i] = R(i - 1, num_points - 1)
        /\ num_points = 1 => x.data = <<Zero>>

C9_Witness ==
    /\ pc = "fit"
    /\ num_points = 5
    /\ noise_level = R(1, 10)
    /\ x.data = <<Zero, R(1, 4), R(1, 2), R(3, 4), One>>
    /\ y.data[2] = [sin2pi |-> R(1, 4), noise |-> R(-1, 10)]

ClaimedDegrees == <<0, 1, 3, 9>>

RECURSIVE ClaimedCalls(_)
ClaimedCalls(n) ==
    IF n = 0 THEN <<"generate_noisy_sin_points">>
    ELSE ClaimedCalls(n - 1) \o <<"polynomial_regression", "polynomial",
                                  "mean_squared_error", "print", "plt.plot">>

\* the line the claim expects for degree d: the score of y against the
\* values at x of the degree-d fit of (x, y)
ClaimedLine(d) ==
    [degree |-> d,
     error |-> [fn |-> "mean_squared_error", y |-> y,
                y_pred |-> [fn |-> "polynomial", x |-> x,
                            w |-> [fn |-> "polynomial_regression",
                                   x |-> x, y |-> y, degree |-> d]]]]

\* C10: every run of the driver ends, and when it has ended the calls made
\* are, in this order, the Sampler once, then for each of the degrees 0, 1,
\* 3, 9 Fitter, Evaluator, Scorer, console line (and the curve's plot), then
\* the rendering; the four lines printed are those of the degrees 0, 1, 3, 9
\* in this order, each the score of the fit of the one sample (x, y).
C10_DriverRunsInOrder ==
    <>(/\ pc = "done"
       /\ calls = ClaimedCalls(4) \o <<"plt.show">>
       /\ out = [i \in 1..4 |-> ClaimedLine(ClaimedDegrees[i])])

C10_Witness ==
    /\ pc = "done"
    /\ Len(out) = 4
    /\ out[4].degree = 9
    /\ out[4].error.y_pred.w.x = x
    /\ x.data[2] = R(1, 9)
    /\ y.data[2].noise = R(1, 10)

\* the pseudoinverse used by the Fitter satisfies the four Penrose conditions
PenroseHolds ==
    pc = "fit" /\ k <= Len(degrees) =>
        LET X == vander(x.data, CurDegree + 1)
            A == MatMul(Transpose(X), X)
            B == pinv(A)
        IN  /\ MatMul(MatMul(A, B), A) = A
            /\ MatMul(MatMul(B, A), B) = B
            /\ Transpose(MatMul(A, B)) = MatMul(A, B)
            /\ Transpose(MatMul(B, A)) = MatMul(B, A)

=============================================================================
